---------------------------- MODULE Spec2Model ----------------------------
(***************************************************************************)
(* A model of dropcam.py: the transport function request(), the account    *)
(* object Dropcam (login, cameras), the Camera object (set_property,       *)
(* events, get_image, save_image), the Event object and the command-line   *)
(* entry point.                                                            *)
(*                                                                         *)
(* Python values are modelled as follows.  A dict (a JSON object, an       *)
(* object's __dict__) is a function from its keys; a list is a sequence;   *)
(* a str is a string, except a header value that int() parses, which is a  *)
(* sequence of one-character strings; None is the value None below.  An    *)
(* exception is a record [type, args].  The vendor's answer to a request   *)
(* is an input of the operation that issues the request.                   *)
(***************************************************************************)
EXTENDS Integers, Sequences, FiniteSets, TLC

VARIABLES
    account,   \* "absent": no Dropcam object; "live": __init__ returned one
    creds,     \* the object's __username and __password
    cookie,    \* Dropcam.cookie
    cams,      \* the list the last successful cameras() returned to the caller
    files,     \* the file system: path -> content, or NoFile
    wire,      \* the HTTP exchanges [req, resp] of the last operation
    ret,       \* the last operation: its name, what it raised, what it returned
    pc,        \* the entry point's position
    idx,       \* the entry point's loop index i (0-based, as enumerate gives it)
    stdout     \* what the entry point printed

vars == <<account, creds, cookie, cams, files, wire, ret, pc, idx, stdout>>

---------------------------------------------------------------------------
(* Python values *)

None == "<None>"

\* str(x) as "%s" % x gives it: the text of a str, "None" for None.
PyStr(x) == IF x = None THEN "None" ELSE x

\* dict.get(key): the value, or None when the key is absent.
Get(d, k) == IF k \in DOMAIN d THEN d[k] ELSE None

\* dict.update / dict(a, **b): b's entries win over a's.
Update(a, b) == b @@ a

Exc(type, args) == [type |-> type, args |-> args]
NoExc == Exc("none", <<>>)
Raised(e) == e.type # "none"

Digits == {"0", "1", "2", "3", "4", "5", "6", "7", "8", "9"}

DigitVal(c) ==
    CASE c = "0" -> 0 [] c = "1" -> 1 [] c = "2" -> 2 [] c = "3" -> 3
      [] c = "4" -> 4 [] c = "5" -> 5 [] c = "6" -> 6 [] c = "7" -> 7
      [] c = "8" -> 8 [] c = "9" -> 9

RECURSIVE DigitsVal(_)
DigitsVal(s) ==
    IF s = <<>> THEN 0
    ELSE 10 * DigitsVal(SubSeq(s, 1, Len(s) - 1)) + DigitVal(s[Len(s)])

IsDigits(s) == Len(s) > 0 /\ \A i \in 1..Len(s) : s[i] \in Digits

\* int(s) of a str s: an optional sign, then one or more decimal digits;
\* anything else raises ValueError.
IntParses(s) ==
    \/ IsDigits(s)
    \/ Len(s) > 1 /\ s[1] \in {"-", "+"} /\ IsDigits(Tail(s))

IntOf(s) ==
    IF s[1] = "-" THEN 0 - DigitsVal(Tail(s))
    ELSE IF s[1] = "+" THEN DigitsVal(Tail(s))
    ELSE DigitsVal(s)

---------------------------------------------------------------------------
(* Endpoints: Dropcam's class attributes *)

NEXUS_BASE == "https://nexusapi.dropcam.com"
API_BASE == "https://www.dropcam.com"
API_PATH == "api"
LOGIN_PATH == API_BASE \o "/" \o API_PATH \o "/" \o "login.login"
CAMERAS_GET_VISIBLE == API_BASE \o "/" \o API_PATH \o "/" \o "cameras.get_visible"
CAMERAS_GET_IMAGE_PATH == NEXUS_BASE \o "/" \o "get_image"
EVENT_PATH == NEXUS_BASE \o "/" \o "get_cuepoint"
PROPERTIES_PATH == API_BASE \o "/" \o "app/cameras/properties"

---------------------------------------------------------------------------
(* The transport function *)

\* requests' Response.ok: raise_for_status() raises for 400 <= status < 600.
Ok(resp) == ~(400 <= resp.status_code /\ resp.status_code < 600)

\* len(str(params)), kept symbolic: no operation reads the header back.
LenStr(params) == [len_of_str |-> params]

Headers(params, ck) ==
    [Cookie |-> ck,
     Referer |-> API_BASE,
     ContentType |-> "application/json",
     ContentLength |-> LenStr(params)]

\* The fields of a request body when no data= argument is given: none.
NoData == [k \in {} |-> None]

\* What requests.get / requests.post puts on the wire for
\* (url, params=params, headers=headers): params is the URL's query string;
\* no data= or json= argument is passed, so the request has no body.
Sent(url, params, ck, method) ==
    [method |-> method,
     url |-> url,
     params |-> params,
     data |-> NoData,
     headers |-> Headers(params, ck)]

\* request(url, params, cookie, method) when the vendor answers resp:
\* the exchange, and the exception raised (NoExc: resp is returned).
request(url, params, ck, method, resp) ==
    [exchange |-> [req |-> Sent(url, params, ck, method), resp |-> resp],
     raised |-> IF ~Ok(resp) THEN Exc("Exception", <<resp.reason>>) ELSE NoExc]

---------------------------------------------------------------------------
(* The vendor, as far as a client sees it *)

JsonBody(doc) == [json |-> doc]
TextBody(text) == [text |-> text]

\* json.loads(content): the document, when the content is JSON text.
IsJson(content) == "json" \in DOMAIN content
JsonLoads(content) == content.json

Response(code, reason, headers, content) ==
    [status_code |-> code, reason |-> reason, headers |-> headers, content |-> content]

NoHeaders == [x \in {} |-> <<>>]

Credentials == {<<"alice", "secret">>, <<"alice", "wrong">>}
ValidCredentials == {<<"alice", "secret">>}
SessionTokens == {"tokA", "tokB"}

\* The login endpoint accepts a credential pair: an ok answer whose first
\* item carries the session token it issued.
LoginAccepts(t) ==
    Response(200, "OK", NoHeaders, JsonBody([items |-> <<[session_token |-> t]>>]))

\* It rejects one: a non-ok answer.
LoginRejects == Response(403, "Forbidden", NoHeaders, TextBody("<html>"))

\* Ok answers of an unexpected shape.
MalformedLoginBodies ==
    {JsonBody([status |-> 0]),
     JsonBody([items |-> <<>>]),
     JsonBody([items |-> <<[user |-> "alice"]>>]),
     JsonBody([items |-> <<[session_token |-> ""]>>]),
     TextBody("<html>")}

LoginResponses(c) ==
    (IF c \in ValidCredentials
     THEN {LoginAccepts(t) : t \in SessionTokens}
     ELSE {LoginRejects})
    \cup {Response(200, "OK", NoHeaders, b) : b \in MalformedLoginBodies}
    \cup {Response(500, "Internal Server Error", NoHeaders, TextBody("<html>"))}

---------------------------------------------------------------------------
(* Dropcam: the account *)

NoCreds == <<>>

\* The format string without its argument.
CookieOfBare(session_token) == "website_2=%s"

\* "website_2=%s" % session_token
CookieOf(session_token) == "website_2=" \o PyStr(session_token)

\* login() with the stored credentials c and the stored cookie ck, the
\* vendor answering resp: the exchange, the exception raised and the cookie
\* the object holds afterwards.
login(c, ck, resp) ==
    LET params == [username |-> c[1], password |-> c[2]]
        r == request(LOGIN_PATH, params, None, "POST", resp)
        fails(e) == [exchange |-> r.exchange, raised |-> e, cookie |-> ck]
    IN  IF Raised(r.raised) THEN fails(r.raised)
        ELSE IF ~IsJson(resp.content)
        THEN fails(Exc("ValueError", <<"No JSON object could be decoded">>))
        ELSE LET response == JsonLoads(resp.content)
             IN  IF "items" \notin DOMAIN response
                 THEN fails(Exc("TypeError", <<"'NoneType' object has no attribute '__getitem__'">>))
                 ELSE IF Len(response.items) = 0
                 THEN fails(Exc("IndexError", <<"list index out of range">>))
                 ELSE [exchange |-> r.exchange,
                       raised |-> NoExc,
                       cookie |-> CookieOf(Get(response.items[1], "session_token"))]

\* What the caller sees of a call: the operation, the camera it was called
\* on (its place in cams; 0 for the account), its arguments, the exception
\* it raised and the value it returned.
Returned(op, target, args, raised, value) ==
    [op |-> op, target |-> target, args |-> args, raised |-> raised, value |-> value]

\* Dropcam(username, password): stores the credentials, sets cookie to
\* None and logs in; when login raises, the caller gets no object.
Construct ==
    /\ account = "absent"
    /\ \E c \in Credentials : \E resp \in LoginResponses(c) :
         LET o == login(c, None, resp)
         IN  /\ account' = IF Raised(o.raised) THEN "absent" ELSE "live"
             /\ creds' = IF Raised(o.raised) THEN NoCreds ELSE c
             /\ cookie' = o.cookie
             /\ wire' = <<o.exchange>>
             /\ ret' = Returned("__init__", 0, c, o.raised, <<>>)
    /\ UNCHANGED <<cams, files, pc, idx, stdout>>

\* d.login() on an object the caller holds.
Login ==
    /\ account = "live"
    /\ \E resp \in LoginResponses(creds) :
         LET o == login(creds, cookie, resp)
         IN  /\ cookie' = o.cookie
             /\ wire' = <<o.exchange>>
             /\ ret' = Returned("login", 0, <<>>, o.raised, <<>>)
    /\ UNCHANGED <<account, creds, cams, files, pc, idx, stdout>>

---------------------------------------------------------------------------
(* The camera listing *)

\* The Dropcam object, as a reference held by the objects built from it.
Self == "<Dropcam object>"

\* Camera(dropcam, params): the object's __dict__ after
\* self.dropcam = dropcam; self.__dict__.update(params).
Camera(dropcam, params) == Update([dropcam |-> dropcam], params)

\* Event(camera, params): likewise, with the attribute camera.
Event(camera, params) == Update([camera |-> camera], params)

Porch == [uuid |-> "u1", title |-> "Porch", is_online |-> TRUE]
Yard == [uuid |-> "u2", title |-> "Yard", is_online |-> FALSE]
\* A record with a vendor attribute that happens to be called dropcam.
Den == [uuid |-> "u3", title |-> "Den", is_online |-> TRUE, dropcam |-> "pro"]

\* The owned lists a group of the listing may carry.
OwnedSamples == {<<>>, <<Yard, Porch>>, <<Den>>}

MaxGroups == 2

RECURSIVE SeqsUpTo(_, _)
SeqsUpTo(S, n) ==
    IF n = 0 THEN {<<>>}
    ELSE LET shorter == SeqsUpTo(S, n - 1)
         IN  shorter \cup {Append(q, x) : q \in shorter, x \in S}

Groups == {[owned |-> o] : o \in OwnedSamples}

ListingBodies ==
    {JsonBody([status |-> 0, items |-> g]) : g \in SeqsUpTo(Groups, MaxGroups)}
    \cup {JsonBody([status |-> 1, status_detail |-> "session expired"]),
          JsonBody([status |-> 7])}

ListingResponses ==
    {Response(200, "OK", NoHeaders, b) : b \in ListingBodies}
    \cup {Response(500, "Internal Server Error", NoHeaders, TextBody("<html>"))}

\* The loops leaving after the first group.
MaterializeFirstGroup(dropcam, items) ==
    IF items = <<>> THEN <<>>
    ELSE [i \in 1..Len(Head(items).owned) |-> Camera(dropcam, Head(items).owned[i])]

\* The body of cameras()'s two loops: one Camera per entry of each group's
\* owned list, group after group.
RECURSIVE Materialize(_, _)
Materialize(dropcam, items) ==
    IF items = <<>> THEN <<>>
    ELSE LET owned == Head(items).owned
         IN  [i \in 1..Len(owned) |-> Camera(dropcam, owned[i])]
             \o Materialize(dropcam, Tail(items))

\* cameras() on an account whose cookie is ck, the vendor answering resp.
cameras(ck, resp) ==
    LET params == [group_cameras |-> TRUE]
        r == request(CAMERAS_GET_VISIBLE, params, ck, "GET", resp)
        fails(e) == [exchange |-> r.exchange, raised |-> e, value |-> <<>>]
    IN  IF Raised(r.raised) THEN fails(r.raised)
        ELSE IF ~IsJson(resp.content)
        THEN fails(Exc("ValueError", <<"No JSON object could be decoded">>))
        ELSE LET response == JsonLoads(resp.content)
             IN  IF "status" \notin DOMAIN response
                 THEN fails(Exc("Exception", <<None, Get(response, "status_detail")>>))
                 ELSE IF response.status # 0
                 THEN fails(Exc("Exception",
                                <<response.status, Get(response, "status_detail")>>))
                 ELSE IF "items" \notin DOMAIN response
                          \/ \E i \in 1..Len(response.items) :
                               "owned" \notin DOMAIN response.items[i]
                 THEN fails(Exc("TypeError", <<"'NoneType' object is not iterable">>))
                 ELSE [exchange |-> r.exchange,
                       raised |-> NoExc,
                       value |-> Materialize(Self, response.items)]

\* d.cameras(); the caller keeps the list it returns.
Cameras ==
    /\ account = "live"
    /\ \E resp \in ListingResponses :
         LET o == cameras(cookie, resp)
         IN  /\ cams' = IF Raised(o.raised) THEN cams ELSE o.value
             /\ wire' = <<o.exchange>>
             /\ ret' = Returned("cameras", 0, <<>>, o.raised, o.value)
    /\ UNCHANGED <<account, creds, cookie, files, pc, idx, stdout>>

---------------------------------------------------------------------------
(* Camera *)

HasAttr(obj, name) == name \in DOMAIN obj
AttributeError(name) == Exc("AttributeError", <<name>>)

\* self.dropcam.cookie: the account's cookie when self.dropcam is the
\* account; anything the listing put there has no attribute cookie.
HoldsAccount(cam) == cam.dropcam = Self

PropertyNames == {"streaming.enabled", "audio.enabled"}
PropertyResponses ==
    {Response(200, "OK", NoHeaders, JsonBody([status |-> 0])),
     Response(400, "Bad Request", NoHeaders, TextBody("<html>"))}

\* cam.set_property(name, value)
set_property(cam, ck, name, value, resp) ==
    IF ~HasAttr(cam, "uuid")
    THEN [wire |-> <<>>, raised |-> AttributeError("uuid")]
    ELSE LET url == PROPERTIES_PATH \o "/" \o cam.uuid
             data == [camera_uuid |-> cam.uuid, name |-> name, value |-> value]
         IN  IF ~HoldsAccount(cam)
             THEN [wire |-> <<>>, raised |-> AttributeError("cookie")]
             ELSE LET r == request(url, data, ck, "POST", resp)
                  IN  [wire |-> <<r.exchange>>, raised |-> r.raised]

SetProperty ==
    /\ account = "live"
    /\ \E i \in 1..Len(cams), name \in PropertyNames, value \in BOOLEAN,
          resp \in PropertyResponses :
         LET o == set_property(cams[i], cookie, name, value, resp)
         IN  /\ wire' = o.wire
             /\ ret' = Returned("set_property", i, <<name, value>>, o.raised, <<>>)
    /\ UNCHANGED <<account, creds, cookie, cams, files, pc, idx, stdout>>

\* Seconds since the epoch, as callers and the clock give them.
Times == {1446000000}
\* time.time()
Clock == {1446681600}

EventItems ==
    {<<>>,
     <<[id |-> "e1", type |-> "motion"]>>,
     <<[id |-> "e2", type |-> "sound"], [id |-> "e1", type |-> "motion"]>>}

EventResponses ==
    {Response(200, "OK", NoHeaders, JsonBody([items |-> es])) : es \in EventItems}
    \cup {Response(500, "Internal Server Error", NoHeaders, TextBody("<html>"))}

\* cam.events(start, *end) at clock time now; start is an int, which
\* int(start) leaves as it is.  The loop reads the name items, which the
\* function never binds and the module does not define.
events(cam, ck, start, end, now, resp) ==
    LET end_time == IF end = <<>> THEN now ELSE end[1]
    IN  IF ~HasAttr(cam, "uuid")
        THEN [wire |-> <<>>, raised |-> AttributeError("uuid"), value |-> <<>>]
        ELSE IF ~HoldsAccount(cam)
        THEN [wire |-> <<>>, raised |-> AttributeError("cookie"), value |-> <<>>]
        ELSE LET params == [uuid |-> cam.uuid, start_time |-> start, end_time |-> end_time]
                 r == request(EVENT_PATH, params, ck, "GET", resp)
                 fails(e) == [wire |-> <<r.exchange>>, raised |-> e, value |-> <<>>]
             IN  IF Raised(r.raised) THEN fails(r.raised)
                 ELSE IF ~IsJson(resp.content)
                 THEN fails(Exc("ValueError", <<"No JSON object could be decoded">>))
                 ELSE fails(Exc("NameError", <<"global name 'items' is not defined">>))

Events ==
    /\ account = "live"
    /\ \E i \in 1..Len(cams), start \in Times, end \in {<<>>} \cup {<<t>> : t \in Times},
          now \in Clock, resp \in EventResponses :
         LET o == events(cams[i], cookie, start, end, now, resp)
         IN  /\ wire' = o.wire
             /\ ret' = Returned("events", i, <<start>> \o end, o.raised, o.value)
    /\ UNCHANGED <<account, creds, cookie, cams, files, pc, idx, stdout>>

DefaultWidth == 720

Bytes(b) == [bytes |-> b]

ContentLengths == {<<"0">>, <<"5">>, <<"-", "1">>, <<"x">>}
WithLength(cl) == [h \in {"content-length"} |-> cl]

ImageResponses ==
    {Response(200, "OK", WithLength(cl), Bytes(IF cl = <<"0">> THEN "" ELSE "JPEG")) :
        cl \in ContentLengths}
    \cup {Response(200, "OK", NoHeaders, Bytes("")),
          Response(204, "No Content", NoHeaders, Bytes("")),
          Response(500, "Internal Server Error", NoHeaders, Bytes("")),
          Response(500, "Internal Server Error", WithLength(<<"5">>), Bytes("error"))}

ConnectionError ==
    Exc("ConnectionError", <<"Camera image is not available or camera is turned off">>)

\* cam.get_image(width, *seconds)
get_image(cam, ck, width, seconds, resp) ==
    IF ~HasAttr(cam, "uuid")
    THEN [wire |-> <<>>, raised |-> AttributeError("uuid")]
    ELSE LET base == [uuid |-> cam.uuid, width |-> width]
             params == IF seconds # <<>> /\ seconds[1] # 0
                       THEN Update(base, [time |-> seconds[1]])
                       ELSE base
         IN  IF ~HoldsAccount(cam)
             THEN [wire |-> <<>>, raised |-> AttributeError("cookie")]
             ELSE LET r == request(CAMERAS_GET_IMAGE_PATH, params, ck, "GET", resp)
                      out(e) == [wire |-> <<r.exchange>>, raised |-> e]
                  IN  IF Raised(r.raised) THEN out(r.raised)
                      ELSE IF resp.status_code # 200 THEN out(ConnectionError)
                      ELSE IF "content-length" \notin DOMAIN resp.headers
                      THEN out(ConnectionError)
                      ELSE IF ~IntParses(resp.headers["content-length"])
                      THEN out(Exc("ValueError", <<"invalid literal for int()">>))
                      ELSE IF IntOf(resp.headers["content-length"]) = 0
                      THEN out(ConnectionError)
                      ELSE out(NoExc)

SecondsArgs == {<<>>, <<0>>} \cup {<<t>> : t \in Times}

GetImage ==
    /\ account = "live"
    /\ \E i \in 1..Len(cams), seconds \in SecondsArgs, resp \in ImageResponses :
         LET o == get_image(cams[i], cookie, DefaultWidth, seconds, resp)
         IN  /\ wire' = o.wire
             /\ ret' = Returned("get_image", i, <<DefaultWidth>> \o seconds, o.raised,
                                IF Raised(o.raised) THEN <<>> ELSE <<resp>>)
    /\ UNCHANGED <<account, creds, cookie, cams, files, pc, idx, stdout>>

NoFiles == [p \in {} |-> ""]
Write(fs, path, content) == (path :> content) @@ fs

\* cam.save_image(path, width, *seconds) on the file system fs: open(path,
\* "wb") creates or truncates the file, then get_image runs, then the
\* response's content is written.
save_image(cam, ck, path, width, seconds, resp, fs) ==
    LET opened == Write(fs, path, "")
        g == get_image(cam, ck, width, seconds, resp)
    IN  [wire |-> g.wire,
         raised |-> g.raised,
         files |-> IF Raised(g.raised) THEN opened
                   ELSE Write(opened, path, resp.content.bytes)]

Paths == {"snapshot.jpg"}

SaveImage ==
    /\ account = "live"
    /\ \E i \in 1..Len(cams), path \in Paths, seconds \in SecondsArgs,
          resp \in ImageResponses :
         LET o == save_image(cams[i], cookie, path, DefaultWidth, seconds, resp, files)
         IN  /\ wire' = o.wire
             /\ files' = o.files
             /\ ret' = Returned("save_image", i, <<path, DefaultWidth>> \o seconds,
                                o.raised, <<>>)
    /\ UNCHANGED <<account, creds, cookie, cams, pc, idx, stdout>>

---------------------------------------------------------------------------
(* A program that uses the module *)

Start(at) ==
    /\ account = "absent"
    /\ creds = NoCreds
    /\ cookie = None
    /\ cams = <<>>
    /\ wire = <<>>
    /\ ret = Returned("import", 0, <<>>, NoExc, <<>>)
    /\ pc = at
    /\ idx = 0
    /\ stdout = <<>>

Init ==
    /\ Start("imported")
    /\ files \in {NoFiles} \cup {Write(NoFiles, p, "OLD") : p \in Paths}

Next ==
    \/ Construct
    \/ Login
    \/ Cameras
    \/ SetProperty
    \/ Events
    \/ GetImage
    \/ SaveImage

Spec == Init /\ [][Next]_vars

\* The operations of the account alone.
AccountNext ==
    \/ Construct
    \/ Login
    \/ Cameras

AccountSpec == Init /\ [][AccountNext]_vars

---------------------------------------------------------------------------
(* The command-line entry point *)

DigitStr(d) ==
    CASE d = 0 -> "0" [] d = 1 -> "1" [] d = 2 -> "2" [] d = 3 -> "3"
      [] d = 4 -> "4" [] d = 5 -> "5" [] d = 6 -> "6" [] d = 7 -> "7"
      [] d = 8 -> "8" [] d = 9 -> "9"

\* "%d" % n, for n >= 0
RECURSIVE FormatInt(_)
FormatInt(n) ==
    IF n < 10 THEN DigitStr(n) ELSE FormatInt(n \div 10) \o DigitStr(n % 10)

\* "dropcam.%d.%d.jpg" % (i, s)
ImageName(i, s) == "dropcam." \o FormatInt(i) \o "." \o FormatInt(s) \o ".jpg"

Week == 60 * 60 * 24 * 7

\* print err
PrintErr(e) == [err |-> e]
\* print i, repr(cam.title), and what follows on the line
PrintCam(i, title, note) == [i |-> i, title |-> title, note |-> note]

\* d = Dropcam(os.getenv(...), os.getenv(...)), outside the try block: an
\* exception here ends the program with a traceback.
MainLogin ==
    /\ pc = "start"
    /\ \E c \in Credentials : \E resp \in LoginResponses(c) :
         LET o == login(c, None, resp)
         IN  /\ account' = IF Raised(o.raised) THEN "absent" ELSE "live"
             /\ creds' = IF Raised(o.raised) THEN NoCreds ELSE c
             /\ cookie' = o.cookie
             /\ wire' = <<o.exchange>>
             /\ ret' = Returned("__init__", 0, c, o.raised, <<>>)
             /\ pc' = IF Raised(o.raised) THEN "uncaught" ELSE "list"
    /\ UNCHANGED <<cams, files, idx, stdout>>

\* enumerate(d.cameras()), inside the try block.
MainList ==
    /\ pc = "list"
    /\ \E resp \in ListingResponses :
         LET o == cameras(cookie, resp)
         IN  /\ cams' = o.value
             /\ wire' = <<o.exchange>>
             /\ ret' = Returned("cameras", 0, <<>>, o.raised, o.value)
             /\ stdout' = IF Raised(o.raised)
                          THEN Append(stdout, PrintErr(o.raised)) ELSE stdout
             /\ pc' = IF Raised(o.raised) THEN "exit" ELSE "loop"
    /\ idx' = 0
    /\ UNCHANGED <<account, creds, cookie, files>>

\* One pass of the loop body, for cam = cams[idx + 1].  save_image is
\* called with the path alone: s names the file and is not asked for.
MainIter ==
    /\ pc = "loop"
    /\ idx < Len(cams)
    /\ LET cam == cams[idx + 1]
       IN  IF ~HasAttr(cam, "title") \/ ~HasAttr(cam, "is_online")
           THEN /\ stdout' = Append(stdout, PrintErr(AttributeError("title")))
                /\ pc' = "exit"
                /\ UNCHANGED <<files, wire, ret, idx>>
           ELSE IF ~cam.is_online
           THEN /\ stdout' = Append(stdout, PrintCam(idx, cam.title, "offline, skipping"))
                /\ idx' = idx + 1
                /\ UNCHANGED <<files, wire, ret, pc>>
           ELSE \E now \in Clock, resp \in ImageResponses :
                  LET s == now - Week
                      path == ImageName(idx, s)
                      o == save_image(cam, cookie, path, DefaultWidth, <<>>, resp, files)
                      line == PrintCam(idx, cam.title, "saving image at time")
                  IN  /\ files' = o.files
                      /\ wire' = o.wire
                      /\ ret' = Returned("save_image", idx + 1, <<path, DefaultWidth>>,
                                         o.raised, <<>>)
                      /\ stdout' = IF Raised(o.raised)
                                   THEN stdout \o <<line, PrintErr(o.raised)>>
                                   ELSE Append(stdout, line)
                      /\ pc' = IF Raised(o.raised) THEN "exit" ELSE "loop"
                      /\ idx' = IF Raised(o.raised) THEN idx ELSE idx + 1
    /\ UNCHANGED <<account, creds, cookie, cams>>

\* The loop is exhausted and the program ends.
MainExit ==
    /\ pc = "loop"
    /\ idx = Len(cams)
    /\ pc' = "exit"
    /\ UNCHANGED <<account, creds, cookie, cams, files, wire, ret, idx, stdout>>

MainInit ==
    /\ Start("start")
    /\ files \in {NoFiles} \cup
                 {Write(NoFiles, ImageName(0, now - Week), "OLD") : now \in Clock}

MainNext ==
    \/ MainLogin
    \/ MainList
    \/ MainIter
    \/ MainExit

MainSpec == MainInit /\ [][MainNext]_vars

---------------------------------------------------------------------------
(* Properties *)

CameraOps == {"set_property", "events", "get_image", "save_image"}
AfterLoginOps == CameraOps \cup {"cameras"}

\* The JSON body of the last operation's answer, when it has one.
Answered == Len(wire) = 1 /\ Ok(wire[1].resp) /\ IsJson(wire[1].resp.content)
Answer == wire[1].resp.content.json

\* C1: every request of an operation other than login carries the cookie
\* website_2=<token> of a token an earlier, completed login stored on the
\* account; none is issued before a login completed, or with an absent or
\* empty token.
C1_RequestsCarrySessionToken ==
    ret.op \in AfterLoginOps =>
        \A k \in 1..Len(wire) :
            /\ account = "live"
            /\ wire[k].req.headers.Cookie = cookie
            /\ \E t \in SessionTokens :
                 t # "" /\ wire[k].req.headers.Cookie = "website_2=" \o t

\* C2: a login the endpoint accepts ends with the cookie of a non-empty
\* session token stored on the account; a login it rejects (a non-ok answer)
\* raises the transport error and leaves the cookie as it was, None for a
\* fresh account.
C2_Step ==
    ret'.op \in {"__init__", "login"} =>
        LET resp == wire'[1].resp
        IN  /\ Len(wire') = 1
            /\ \A t \in SessionTokens :
                 resp = LoginAccepts(t) =>
                     /\ ~Raised(ret'.raised)
                     /\ account' = "live"
                     /\ t # ""
                     /\ cookie' = "website_2=" \o t
            /\ ~Ok(resp) =>
                 /\ ret'.raised = Exc("Exception", <<resp.reason>>)
                 /\ cookie' = cookie
                 /\ ret'.op = "__init__" => cookie' = None /\ account' = "absent"

\* C2, of every step of a behaviour: each __init__ and each login stores
\* the accepted token's cookie or raises and leaves the cookie alone.
C2_LoginStoresTokenOrFails == [][C2_Step]_vars

\* C2's case: a second login on a live account was accepted and replaced
\* the stored token.
C2_Witness ==
    /\ ret.op = "login"
    /\ wire[1].resp = LoginAccepts("tokB")
    /\ cookie = "website_2=tokB"

RECURSIVE OwnedTotal(_)
OwnedTotal(items) ==
    IF items = <<>> THEN 0 ELSE Len(Head(items).owned) + OwnedTotal(Tail(items))

RECURSIVE OwnedInOrder(_)
OwnedInOrder(items) ==
    IF items = <<>> THEN <<>> ELSE Head(items).owned \o OwnedInOrder(Tail(items))

\* C3: for a listing of status 0, cameras() returns one Camera per entry of
\* the groups' owned lists, group by group in payload order, nothing
\* dropped or merged; for another status it raises an error carrying the
\* status and the detail, and returns no camera.
C3_ListingFlattenedOrRaised ==
    (ret.op = "cameras" /\ Answered) =>
        IF Answer.status = 0
        THEN /\ ~Raised(ret.raised)
             /\ Len(ret.value) = OwnedTotal(Answer.items)
             /\ \A k \in 1..Len(ret.value) :
                  \A a \in DOMAIN OwnedInOrder(Answer.items)[k] :
                      /\ a \in DOMAIN ret.value[k]
                      /\ ret.value[k][a] = OwnedInOrder(Answer.items)[k][a]
             /\ cams = ret.value
        ELSE /\ ret.raised =
                  Exc("Exception", <<Answer.status, Get(Answer, "status_detail")>>)
             /\ ret.value = <<>>

\* C3's case: a listing of two groups that both own the same two cameras
\* came back as four cameras, each pair in payload order.
C3_Witness ==
    /\ ret.op = "cameras"
    /\ Answered
    /\ Answer.status = 0
    /\ Len(Answer.items) = 2
    /\ Len(ret.value) = 4
    /\ ret.value[1] = ret.value[3]
    /\ ret.value[1].uuid = "u2"
    /\ ret.value[2].uuid = "u1"

IsPositiveLength(headers) ==
    /\ "content-length" \in DOMAIN headers
    /\ IntParses(headers["content-length"])
    /\ IntOf(headers["content-length"]) > 0

IsZeroOrAbsentLength(headers) ==
    \/ "content-length" \notin DOMAIN headers
    \/ /\ IntParses(headers["content-length"])
       /\ IntOf(headers["content-length"]) = 0

\* C4: get_image returns the response exactly when its status is 200 and
\* its content-length is a positive integer; 200 with content-length 0 or
\* absent raises ConnectionError; 500 raises the transport error.
C4_ImageReturnedIffPositiveLength ==
    (ret.op = "get_image" /\ Len(wire) = 1) =>
        LET resp == wire[1].resp
        IN  /\ ~Raised(ret.raised) <=>
                 (resp.status_code = 200 /\ IsPositiveLength(resp.headers))
            /\ ~Raised(ret.raised) => ret.value = <<resp>>
            /\ (resp.status_code = 200 /\ IsZeroOrAbsentLength(resp.headers)) =>
                 ret.raised = ConnectionError
            /\ resp.status_code = 500 =>
                 ret.raised = Exc("Exception", <<resp.reason>>)

\* C5: for an ok events payload, events() returns one Event per item, in
\* vendor order, each holding the camera it was called on and the item's
\* fields.
C5_OneEventPerItem ==
    (ret.op = "events" /\ Answered) =>
        /\ ~Raised(ret.raised)
        /\ ret.value =
             [k \in 1..Len(Answer.items) |-> Event(cams[ret.target], Answer.items[k])]

\* C6: set_property issues exactly one request, a POST to the camera's
\* properties endpoint whose body carries camera_uuid, name and value as
\* passed; it raises nothing when the vendor answers ok; the Camera objects
\* and the session cookie stay as they were.  (Stated for a camera that
\* refers to its account; C10 is about the others.)
C6_Step ==
    (ret'.op = "set_property" /\ HoldsAccount(cams[ret'.target])) =>
        /\ Len(wire') = 1
        /\ wire'[1].req.method = "POST"
        /\ wire'[1].req.url = PROPERTIES_PATH \o "/" \o cams[ret'.target].uuid
        /\ wire'[1].req.data =
             [camera_uuid |-> cams[ret'.target].uuid,
              name |-> ret'.args[1],
              value |-> ret'.args[2]]
        /\ Ok(wire'[1].resp) => ~Raised(ret'.raised)
        /\ cams' = cams
        /\ cookie' = cookie

\* C6, of every step of a behaviour: each set_property is one POST with
\* the three fields in its body, and changes neither cameras nor cookie.
C6_SetPropertyPostsBody == [][C6_Step]_vars

UnexpectedLoginShape(content) ==
    /\ IsJson(content)
    /\ \/ "items" \notin DOMAIN content.json
       \/ Len(content.json.items) = 0
       \/ "session_token" \notin DOMAIN content.json.items[1]

\* C7: an ok login answer of unexpected shape (no items, no first item, no
\* session_token in it) makes login() raise, and no cookie is stored.
C7_Step ==
    (/\ ret'.op \in {"__init__", "login"}
     /\ Ok(wire'[1].resp)
     /\ UnexpectedLoginShape(wire'[1].resp.content)) =>
        /\ Raised(ret'.raised)
        /\ cookie' = cookie

\* C7, of every step of a behaviour: each login answered ok with an
\* unexpected shape raises and leaves the cookie alone.
C7_MalformedLoginFails == [][C7_Step]_vars

\* C8: when get_image raises the transport or the connectivity error inside
\* save_image, the file at path is neither created nor truncated nor
\* written.
C8_Step ==
    (ret'.op = "save_image" /\ ret'.raised.type \in {"Exception", "ConnectionError"}) =>
        files' = files

\* C8, of every step of a behaviour: a save_image whose get_image raised
\* leaves the file system as it was.
C8_FailedImageLeavesFile == [][C8_Step]_vars

\* C9: no error of login, of the listing or of saving an image leaves the
\* entry point uncaught; each is printed before the program ends.
C9_MainCatchesEveryError ==
    /\ pc # "uncaught"
    /\ (pc = "exit" /\ Raised(ret.raised)) =>
         (stdout # <<>> /\ stdout[Len(stdout)] = PrintErr(ret.raised))

\* C10: whatever attributes the listing's records carry, every Camera that
\* cameras() returned refers to the account it was called on, and its
\* operations send that account's cookie.
C10_CameraKeepsAccount ==
    /\ \A k \in 1..Len(cams) : cams[k].dropcam = Self
    /\ ret.op \in CameraOps =>
         (Len(wire) = 1 /\ wire[1].req.headers.Cookie = cookie)

====
